---- MODULE Spec2Model ----
(***************************************************************************)
(* Model of the real-time task-update service of the dashboard:            *)
(* WebSocketService (services/websocket.ts) and the local task history of  *)
(* ApiService (services/api.ts).                                           *)
(*                                                                         *)
(* One action per entry point or callback of the service.  Each handler is *)
(* an operator from a service state (the record St) to the service state   *)
(* after the handler has returned, so that the calls a handler makes       *)
(* (handleReconnection, fallbackToPolling, disconnect, ...) are part of    *)
(* the same step.                                                          *)
(*                                                                         *)
(* Environment assumptions (browser WebSocket):                            *)
(*  - a connection that fails fires an error event and then a close event  *)
(*    with code 1006, in the same task of the event loop;                  *)
(*  - a server may also close an open connection with a close frame, with  *)
(*    code 1000 or with another code; then only the close event fires;     *)
(*  - ws.close(1000) on an open socket completes the closing handshake:    *)
(*    the close event that follows carries code 1000, and no message is    *)
(*    delivered while the socket is closing;                               *)
(*  - messages follow the wire shape {type, task_id, data, timestamp} or   *)
(*    are not JSON at all.                                                 *)
(***************************************************************************)
EXTENDS Integers, Sequences, FiniteSets, TLC

\* ------------------------------------------------------------------ bounds
MaxSockets == 2
MaxTimeouts == 2
MaxFetches == 1
MaxSaved == 102

\* --------------------------------------------------------------- constants
maxReconnectAttempts == 5
NORMAL_CLOSURE == 1000
ABNORMAL_CLOSURE == 1006
INTERNAL_ERROR == 1011
HistoryLimit == 100

Tasks == {"A", "B"}
SockIds == 1..MaxSockets
NoSock == 0
NoTask == "-"
Absent == "absent"

Statuses == {"running", "completed", "failed"}
ProgressValues == {10, 50}
NoProgress == -1

VARIABLES
    connections,        \* Map<taskId, WebSocket>: the socket id, NoSock = no entry
    reconnectAttempts,  \* Map<taskId, number>: 0 = no entry
    pollingIntervals,   \* Map<taskId, Timeout>: TRUE = has an entry
    intervalTimers,     \* number of setInterval timers running for the task
    sockets,            \* the WebSocket objects: their task (closure) and readyState
    timeouts,           \* number of pending setTimeout(connectToTask) per task
    fetches,            \* number of getTaskStatus calls in flight per task
    taskHistory,        \* localStorage 'taskHistory': the record of each task
    delivered,          \* what the registered observers have received, in order
    inbound,            \* the events that arrived (messages, poll results), in order
    env,                \* the environment of the run, fixed at start
    clean,              \* history: subscribed once, no attempt has succeeded so far
    released,           \* history: disconnect(t) returned, no explicit connect since
    taskUpdateCallbacks, \* TaskUpdateCallback[]: the registered functions, in order
    logCallbacks,       \* LogCallback[]: the registered functions, in order
    handles,            \* the unregister closures returned so far, in order
    received,           \* history: how often each registration has been called
    updateCalls,        \* history: the calls of ApiService.updateTaskInHistory
    scheduled,          \* history: the delays of the retries since the counter was reset
    terminals           \* history: completed/failed updates since connectToTask(t)

vars == <<connections, reconnectAttempts, pollingIntervals, intervalTimers, sockets,
          timeouts, fetches, taskHistory, delivered, inbound, env, clean,
          released, taskUpdateCallbacks, logCallbacks, handles, received,
          updateCalls, scheduled, terminals>>

\* The service state a handler works on.
St == [connections |-> connections, reconnectAttempts |-> reconnectAttempts,
       pollingIntervals |-> pollingIntervals, intervalTimers |-> intervalTimers,
       sockets |-> sockets, timeouts |-> timeouts, fetches |-> fetches,
       taskHistory |-> taskHistory, delivered |-> delivered, released |-> released,
       taskUpdateCallbacks |-> taskUpdateCallbacks, logCallbacks |-> logCallbacks,
       handles |-> handles, received |-> received, updateCalls |-> updateCalls,
       scheduled |-> scheduled, terminals |-> terminals,
       thrown |-> FALSE]

FreeSocket == [task |-> NoTask, readyState |-> "CLOSED"]

\* Socket ids are only names of the WebSocket objects.  Canon renames them so
\* that two states that differ in the names alone are one state: the sockets
\* are kept in the order task, registered first, readyState, free ids last.
TaskRank(t) == IF t = "A" THEN 1 ELSE IF t = "B" THEN 2 ELSE 3

StateRank(rs) ==
    IF rs = "OPEN" THEN 1 ELSE IF rs = "CONNECTING" THEN 2 ELSE IF rs = "CLOSING" THEN 3 ELSE 4

SockKey(st, s) ==
    IF st.sockets[s].task = NoTask THEN 100
    ELSE 10 * TaskRank(st.sockets[s].task)
         + (IF st.connections[st.sockets[s].task] = s THEN 0
            ELSE StateRank(st.sockets[s].readyState))

Renamed(st, p) ==
    [st EXCEPT !.sockets = [i \in SockIds |-> st.sockets[p[i]]],
               !.connections = [t \in Tasks |->
                    IF st.connections[t] = NoSock THEN NoSock
                    ELSE CHOOSE i \in SockIds : p[i] = st.connections[t]]]

Canon(st) ==
    Renamed(st, CHOOSE q \in Permutations(SockIds) :
                    \A i, j \in SockIds : i < j => SockKey(st, q[i]) <= SockKey(st, q[j]))

\* The variables take the state a handler returns.  (The singleton sets only
\* make TLC compute the handler's result once.)
Install(st) ==
    \E v \in {st} : \E c \in {Canon(v)} :
        /\ connections' = c.connections
        /\ reconnectAttempts' = c.reconnectAttempts
        /\ pollingIntervals' = c.pollingIntervals
        /\ intervalTimers' = c.intervalTimers
        /\ sockets' = c.sockets
        /\ timeouts' = c.timeouts
        /\ fetches' = c.fetches
        /\ taskHistory' = c.taskHistory
        /\ delivered' = c.delivered
        /\ released' = c.released
        /\ taskUpdateCallbacks' = c.taskUpdateCallbacks
        /\ logCallbacks' = c.logCallbacks
        /\ handles' = c.handles
        /\ received' = c.received
        /\ updateCalls' = c.updateCalls
        /\ scheduled' = c.scheduled
        /\ terminals' = c.terminals

LiveSockets(socks, t) ==
    {s \in SockIds : socks[s].task = t /\ socks[s].readyState \in {"CONNECTING", "OPEN"}}

FreeIds(socks) == {s \in SockIds : socks[s].task = NoTask}

NewId(socks) == CHOOSE s \in FreeIds(socks) : \A r \in FreeIds(socks) : s <= r

\* ------------------------------------------------------- ApiService (api.ts)
\* A stored task record or a Partial<Task>; Absent marks a field that is not set.
TaskRecord(id, status, progress, completed_at) ==
    [id |-> id, status |-> status, progress |-> progress, completed_at |-> completed_at]

Updates(status, progress, completed_at) ==
    [status |-> status, progress |-> progress, completed_at |-> completed_at]

\* history.findIndex(t => t.id === taskId); 0 stands for the code's -1
FindIndex(history, taskId) ==
    IF \E i \in 1..Len(history) : history[i].id = taskId
    THEN CHOOSE i \in 1..Len(history) :
            /\ history[i].id = taskId
            /\ \A j \in 1..(i - 1) : history[j].id # taskId
    ELSE 0

\* { ...history[taskIndex], ...updates }: every key of updates overwrites the
\* record's, the id too when updates has one
Spread(record, updates) ==
    [id |-> IF "id" \in DOMAIN updates THEN updates.id ELSE record.id,
     status |-> IF updates.status # Absent THEN updates.status ELSE record.status,
     progress |-> IF updates.progress # NoProgress THEN updates.progress ELSE record.progress,
     completed_at |-> IF updates.completed_at # Absent THEN updates.completed_at
                      ELSE record.completed_at]

\* updateTaskInHistory that stores the update as a new record when no record
\* has the id
updateTaskInHistory_upsert(history, taskId, updates) ==
    LET taskIndex == FindIndex(history, taskId) IN
    IF taskIndex > 0
    THEN [history EXCEPT ![taskIndex] = Spread(history[taskIndex], updates)]
    ELSE Append(history, Spread(TaskRecord(taskId, "pending", NoProgress, Absent), updates))

updateTaskInHistory(history, taskId, updates) ==
    LET taskIndex == FindIndex(history, taskId) IN
    IF taskIndex > 0
    THEN [history EXCEPT ![taskIndex] = Spread(history[taskIndex], updates)]
    ELSE history

\* history.slice(0, HistoryLimit)
Trimmed(history) ==
    SubSeq(history, 1, IF Len(history) < HistoryLimit THEN Len(history) ELSE HistoryLimit)

\* the task object has the keys of its fields that are set; unshift puts a
\* new task first
saveTaskToHistory(history, task) ==
    LET existingIndex == FindIndex(history, task.id) IN
    IF existingIndex > 0
    THEN Trimmed([history EXCEPT ![existingIndex] = Spread(history[existingIndex], task)])
    ELSE Trimmed(<<task>> \o history)

\* localStorage.setItem is reached, and throws when the storage refuses the write
UpdateThrows(history, taskId, storageFails) ==
    storageFails /\ FindIndex(history, taskId) > 0

\* ---------------------------------------------- WebSocketService (websocket.ts)
\* A run with env.logCap > 0 logs its events, and the server sends env.logCap
\* frames and snapshots in all; a run with env.logCap = 0 keeps no log.
Recording == env.logCap > 0

EventRoom == env.logCap = 0 \/ Len(inbound) < env.logCap

Delivery(kind, via, taskId, updates) ==
    [kind |-> kind, via |-> via, task |-> taskId, updates |-> updates]

\* An entry of a callback array: the function, and (history) the number of
\* the onTaskUpdate/onLog call that pushed it.  The code sees the function only.
Registration(fn, reg) == [fn |-> fn, reg |-> reg]

\* The closure onTaskUpdate/onLog returns: it holds the array and the callback.
Handle(list, fn) == [list |-> list, fn |-> fn]

\* array.indexOf(callback); 0 stands for the code's -1
indexOf(array, callback) ==
    IF \E i \in 1..Len(array) : array[i].fn = callback
    THEN CHOOSE i \in 1..Len(array) :
            /\ array[i].fn = callback
            /\ \A j \in 1..(i - 1) : array[j].fn # callback
    ELSE 0

\* array.splice(index, 1)
splice(array, index) ==
    SubSeq(array, 1, index - 1) \o SubSeq(array, index + 1, Len(array))

\* onTaskUpdate(callback): push, and return the closure
onTaskUpdate(st, callback) ==
    [st EXCEPT !.taskUpdateCallbacks =
                   Append(@, Registration(callback, Len(st.handles) + 1)),
               !.handles = Append(@, Handle("update", callback)),
               !.received = Append(@, 0)]

\* onLog(callback)
onLog(st, callback) ==
    [st EXCEPT !.logCallbacks = Append(@, Registration(callback, Len(st.handles) + 1)),
               !.handles = Append(@, Handle("log", callback)),
               !.received = Append(@, 0)]

\* the closure returned by onTaskUpdate or onLog is called
unsubscribe(st, h) ==
    LET callback == st.handles[h].fn IN
    IF st.handles[h].list = "update"
    THEN LET index == indexOf(st.taskUpdateCallbacks, callback) IN
         IF index > 0
         THEN [st EXCEPT !.taskUpdateCallbacks = splice(@, index)]
         ELSE st
    ELSE LET index == indexOf(st.logCallbacks, callback) IN
         IF index > 0
         THEN [st EXCEPT !.logCallbacks = splice(@, index)]
         ELSE st

\* callbacks.forEach(callback => { try { callback(...) } catch { console.error } }):
\* Array.prototype.forEach visits the indices below the length the array had
\* when it started, reading the array as it is at each index, and skips an
\* index the array no longer has.  The callback is called (one that releases
\* itself calls its unregister closure), and an exception it throws is caught
\* and logged, after which forEach goes on with the next index.
RECURSIVE forEach(_, _, _, _)
forEach(st, list, k, len) ==
    LET array == IF list = "update" THEN st.taskUpdateCallbacks ELSE st.logCallbacks IN
    IF k > len
    THEN st
    ELSE IF k > Len(array)
         THEN forEach(st, list, k + 1, len)
         ELSE LET called == [st EXCEPT !.received[array[k].reg] = @ + 1]
                  after == IF array[k].fn \in env.oneShot
                           THEN unsubscribe(called, array[k].reg)
                           ELSE called
              IN  IF array[k].fn \in env.throwers
                  THEN forEach(after, list, k + 1, len)
                  ELSE forEach(after, list, k + 1, len)

IsTerminal(status) == status = "completed" \/ status = "failed"

\* taskUpdateCallbacks.forEach(...), then ApiService.updateTaskInHistory
notifyTaskUpdate(st, taskId, updates, via, storageFails) ==
    LET fanned == forEach(st, "update", 1, Len(st.taskUpdateCallbacks))
        seen == IF Recording
                THEN [fanned EXCEPT
                         !.delivered = Append(@, Delivery("update", via, taskId, updates)),
                         !.terminals[taskId] =
                             IF IsTerminal(updates.status) THEN @ + 1 ELSE @,
                         !.updateCalls = @ + 1]
                ELSE fanned
    IN  IF UpdateThrows(st.taskHistory, taskId, storageFails)
        THEN [seen EXCEPT !.thrown = TRUE]
        ELSE [seen EXCEPT !.taskHistory = updateTaskInHistory(@, taskId, updates)]

\* logCallbacks.forEach(...)
notifyLog(st, taskId, via) ==
    LET fanned == forEach(st, "log", 1, Len(st.logCallbacks)) IN
    IF Recording
    THEN [fanned EXCEPT !.delivered =
             Append(@, Delivery("log", via, taskId, Updates(Absent, NoProgress, Absent)))]
    ELSE fanned

\* stopPolling without the test of the table entry
stopPolling_unguarded(st, taskId) ==
    [st EXCEPT !.pollingIntervals[taskId] = FALSE,
               !.intervalTimers[taskId] = @ - 1]

stopPolling(st, taskId) ==
    IF st.pollingIntervals[taskId]
    THEN [st EXCEPT !.pollingIntervals[taskId] = FALSE,
                    !.intervalTimers[taskId] = @ - 1]
    ELSE st

\* fallbackToPolling without the test of the table entry
fallbackToPolling_unguarded(st, taskId) ==
    [st EXCEPT !.pollingIntervals[taskId] = TRUE,
               !.intervalTimers[taskId] = @ + 1]

fallbackToPolling(st, taskId) ==
    IF st.pollingIntervals[taskId]
    THEN st
    ELSE [st EXCEPT !.pollingIntervals[taskId] = TRUE,
                    !.intervalTimers[taskId] = @ + 1]

\* the delay computed from the counter after its increment
Delay_afterIncrement(attempts) ==
    IF 2 ^ (attempts + 1) < 30 THEN 2 ^ (attempts + 1) ELSE 30

\* Math.min(1000 * Math.pow(2, attempts), 30000), in units of 1000 ms
Delay(attempts) == IF 2 ^ attempts < 30 THEN 2 ^ attempts ELSE 30

\* handleReconnection that gives up at the maximum without polling
handleReconnection_noFallback(st, taskId) ==
    LET attempts == st.reconnectAttempts[taskId] IN
    IF attempts >= maxReconnectAttempts
    THEN st
    ELSE [st EXCEPT !.reconnectAttempts[taskId] = attempts + 1,
                    !.timeouts[taskId] = @ + 1,
                    !.scheduled[taskId] = Append(@, Delay(attempts))]

\* handleReconnection that counts the attempt before it tests the maximum
handleReconnection_countsFirst(st, taskId) ==
    LET attempts == st.reconnectAttempts[taskId]
        counted == [st EXCEPT !.reconnectAttempts[taskId] = attempts + 1]
    IN  IF attempts >= maxReconnectAttempts
        THEN fallbackToPolling(counted, taskId)
        ELSE [counted EXCEPT !.timeouts[taskId] = @ + 1,
                             !.scheduled[taskId] = Append(@, Delay(attempts))]

handleReconnection(st, taskId) ==
    LET attempts == st.reconnectAttempts[taskId] IN
    IF attempts >= maxReconnectAttempts
    THEN fallbackToPolling(st, taskId)
    ELSE [st EXCEPT !.reconnectAttempts[taskId] = attempts + 1,
                    !.timeouts[taskId] = @ + 1,
                    !.scheduled[taskId] = Append(@, Delay(attempts))]

\* new WebSocket(wsUrl) throws for a URL it rejects; otherwise the socket is
\* created in state CONNECTING and the table is not touched until it opens.
connectToTask(st, taskId) ==
    IF st.connections[taskId] # NoSock
    THEN st
    ELSE IF taskId \in env.badUrl
         THEN fallbackToPolling(st, taskId)
         ELSE [st EXCEPT !.sockets[NewId(st.sockets)] =
                             [task |-> taskId, readyState |-> "CONNECTING"]]

disconnect(st, taskId) ==
    LET ws == st.connections[taskId]
        closed == IF ws # NoSock
                  THEN [st EXCEPT !.sockets[ws].readyState =
                                      IF @ = "OPEN" THEN "CLOSING" ELSE @,
                                  !.connections[taskId] = NoSock]
                  ELSE st
        stopped == stopPolling(closed, taskId)
    IN  [stopped EXCEPT !.reconnectAttempts[taskId] = 0,
                        !.scheduled[taskId] = <<>>,
                        !.released[taskId] = TRUE]

\* for (const taskId of this.connections.keys()) this.disconnect(taskId)
RECURSIVE DisconnectEach(_, _)
DisconnectEach(st, ids) ==
    IF ids = {} THEN st
    ELSE LET taskId == CHOOSE t \in ids : TRUE
         IN  DisconnectEach(disconnect(st, taskId), ids \ {taskId})

disconnectAll(st) ==
    DisconnectEach(st, {t \in Tasks : st.connections[t] # NoSock})

\* Array.from(this.connections.keys())
getActiveConnections(st) == {t \in Tasks : st.connections[t] # NoSock}

\* ws.onopen
onopen(st, ws) ==
    LET taskId == st.sockets[ws].task
        opened == [st EXCEPT !.sockets[ws].readyState = "OPEN",
                             !.connections[taskId] = ws,
                             !.reconnectAttempts[taskId] = 0,
                             !.scheduled[taskId] = <<>>]
    IN  stopPolling(opened, taskId)

\* ws.onclose without the test of the close code
onclose_anyCode(st, ws, code) ==
    LET taskId == st.sockets[ws].task
        gone == [st EXCEPT !.sockets[ws] = FreeSocket,
                           !.connections[taskId] = NoSock]
    IN  handleReconnection(gone, taskId)

\* ws.onclose; the socket object is done after its close event
onclose(st, ws, code) ==
    LET taskId == st.sockets[ws].task
        gone == [st EXCEPT !.sockets[ws] = FreeSocket,
                           !.connections[taskId] = NoSock]
    IN  IF code # NORMAL_CLOSURE
        THEN handleReconnection(gone, taskId)
        ELSE gone

\* ws.onerror
onerror(st, ws) == handleReconnection(st, st.sockets[ws].task)

\* A raw frame: text that is not JSON, or a message of the wire shape.
Garbage == [type |-> "garbage", task_id |-> NoTask, status |-> Absent, progress |-> NoProgress]

Message(type, task_id, status, progress) ==
    [type |-> type, task_id |-> task_id, status |-> status, progress |-> progress]

\* handleWebSocketMessage whose completed case sets no progress
handleWebSocketMessage_noProgress(st, message, storageFails) ==
    LET task_id == message.task_id IN
    CASE message.type = "status" ->
            notifyTaskUpdate(st, task_id,
                Updates(message.status, message.progress, Absent), "ws", storageFails)
      [] message.type = "progress" ->
            notifyTaskUpdate(st, task_id,
                Updates(Absent, message.progress, Absent), "ws", storageFails)
      [] message.type = "log" -> notifyLog(st, task_id, "ws")
      [] message.type = "completed" ->
            LET n == notifyTaskUpdate(st, task_id,
                        Updates("completed", NoProgress, "now"), "ws", storageFails)
            IN  IF n.thrown THEN n ELSE disconnect(n, task_id)
      [] message.type = "failed" ->
            LET n == notifyTaskUpdate(st, task_id,
                        Updates("failed", NoProgress, "now"), "ws", storageFails)
            IN  IF n.thrown THEN n ELSE disconnect(n, task_id)
      [] OTHER -> st

\* handleWebSocketMessage whose default case passes the frame on as a log line
handleWebSocketMessage_defaultLogs(st, message, storageFails) ==
    LET task_id == message.task_id IN
    CASE message.type = "status" ->
            notifyTaskUpdate(st, task_id,
                Updates(message.status, message.progress, Absent), "ws", storageFails)
      [] message.type = "progress" ->
            notifyTaskUpdate(st, task_id,
                Updates(Absent, message.progress, Absent), "ws", storageFails)
      [] message.type = "completed" ->
            LET n == notifyTaskUpdate(st, task_id,
                        Updates("completed", 100, "now"), "ws", storageFails)
            IN  IF n.thrown THEN n ELSE disconnect(n, task_id)
      [] message.type = "failed" ->
            LET n == notifyTaskUpdate(st, task_id,
                        Updates("failed", NoProgress, "now"), "ws", storageFails)
            IN  IF n.thrown THEN n ELSE disconnect(n, task_id)
      [] OTHER -> notifyLog(st, task_id, "ws")

handleWebSocketMessage(st, message, storageFails) ==
    LET task_id == message.task_id IN
    CASE message.type = "status" ->
            notifyTaskUpdate(st, task_id,
                Updates(message.status, message.progress, Absent), "ws", storageFails)
      [] message.type = "progress" ->
            notifyTaskUpdate(st, task_id,
                Updates(Absent, message.progress, Absent), "ws", storageFails)
      [] message.type = "log" -> notifyLog(st, task_id, "ws")
      [] message.type = "completed" ->
            LET n == notifyTaskUpdate(st, task_id,
                        Updates("completed", 100, "now"), "ws", storageFails)
            IN  IF n.thrown THEN n ELSE disconnect(n, task_id)
      [] message.type = "failed" ->
            LET n == notifyTaskUpdate(st, task_id,
                        Updates("failed", NoProgress, "now"), "ws", storageFails)
            IN  IF n.thrown THEN n ELSE disconnect(n, task_id)
      [] OTHER -> st

\* ws.onmessage: JSON.parse, then handleWebSocketMessage, both inside try/catch
onmessage(st, raw, storageFails) ==
    IF raw.type = "garbage"
    THEN st
    ELSE handleWebSocketMessage(st, raw, storageFails)

\* the setInterval callback, after await ApiService.getTaskStatus(taskId)
pollResult(st, taskId, status, storageFails) ==
    LET n == notifyTaskUpdate(st, taskId, status, "poll", storageFails) IN
    IF n.thrown
    THEN n
    ELSE IF status.status = "completed" \/ status.status = "failed"
         THEN stopPolling(n, taskId)
         ELSE n

\* ------------------------------------------------------------ the environment
\* The frames a server can send on a connection about the given task ids.
RawMessages(ids) ==
    {Garbage}
    \cup {Message("status", t, st, 10) : t \in ids, st \in Statuses}
    \cup {Message("progress", t, Absent, p) : t \in ids, p \in ProgressValues}
    \cup {Message(ty, t, Absent, NoProgress) :
             ty \in {"log", "completed", "failed", "heartbeat"}, t \in ids}

\* The snapshots GET /status/<id> can return.
StatusSnapshots ==
    {Updates("running", 50, Absent), Updates("completed", 100, Absent),
     Updates("failed", 50, Absent)}

\* The updates a dispatch passes to updateTaskInHistory.
\* Partial<Task> objects; the last one has an id key, as the Task of a status
\* response has
HistoryUpdates ==
    {Updates("running", 50, Absent), Updates(Absent, 10, Absent),
     Updates("completed", 100, "now"),
     [id |-> 2, status |-> Absent, progress |-> 10, completed_at |-> Absent]}

\* How the service is tracking a task.
Tracking(t) ==
    IF connections[t] # NoSock THEN "open"
    ELSE IF \E s \in SockIds : sockets[s].task = t /\ sockets[s].readyState = "OPEN"
         THEN "unregistered"
    ELSE IF \E s \in SockIds : sockets[s].task = t /\ sockets[s].readyState = "CONNECTING"
         THEN "connecting"
    ELSE IF timeouts[t] > 0 THEN "retry"
    ELSE IF pollingIntervals[t] THEN "polling"
    ELSE "none"

Idle(t) ==
    /\ \A s \in SockIds : sockets[s].task # t
    /\ timeouts[t] = 0 /\ fetches[t] = 0 /\ intervalTimers[t] = 0
    /\ reconnectAttempts[t] = 0 /\ ~pollingIntervals[t]

\* connectToTask(t) would call new WebSocket
Creates(st, t) == st.connections[t] = NoSock /\ t \notin env.badUrl

\* the environment lets the page hold one more socket of task t
Room(t) ==
    /\ FreeIds(sockets) # {}
    /\ Cardinality({s \in SockIds : sockets[s].task = t}) < env.sockCap

\* an event as it arrived: on a socket of task `on` or from a poll of `on`;
\* thrown: the write-through of its update threw
Event(via, on, frame, thrown) ==
    [via |-> via, on |-> on, frame |-> frame, thrown |-> thrown]

Log(event) == inbound' = IF Recording THEN Append(inbound, event) ELSE inbound

\* a disconnect of t within the step ends the history of a single subscription
Keep(st) == clean' = [t \in Tasks |-> clean[t] /\ ~st.released[t]]

\* ------------------------------------------------------------------- actions
\* Dashboard: webSocketService.onTaskUpdate(handleTaskUpdate)
OnTaskUpdateCall(callback) ==
    /\ Len(handles) < env.regCap
    /\ Install(onTaskUpdate(St, callback))
    /\ UNCHANGED <<inbound, env, clean>>

\* Dashboard: webSocketService.onLog(handleLogUpdate)
OnLogCall(callback) ==
    /\ Len(handles) < env.regCap
    /\ Install(onLog(St, callback))
    /\ UNCHANGED <<inbound, env, clean>>

\* Dashboard cleanup: unsubscribeTaskUpdate(), unsubscribeLog()
UnsubscribeCall(h) ==
    /\ h \in 1..Len(handles)
    /\ Install(unsubscribe(St, h))
    /\ UNCHANGED <<inbound, env, clean>>

\* the id the server gives the next task: ids are issued in increasing order
NextId(history) == IF history = <<>> THEN 1 ELSE history[1].id + 1

\* Dashboard handleStartTask: ApiService.startTask saves the new task, which
\* is pending; a task can also be saved again under its id
SaveTaskCall(id) ==
    /\ id \in env.startable
    /\ id = NextId(taskHistory) \/ FindIndex(taskHistory, id) > 0
    /\ taskHistory' = saveTaskToHistory(taskHistory,
                                        TaskRecord(id, "pending", NoProgress, Absent))
    /\ UNCHANGED <<connections, reconnectAttempts, pollingIntervals, intervalTimers,
                   sockets, timeouts, fetches, delivered, inbound, env, clean,
                   released, taskUpdateCallbacks, logCallbacks, handles, received,
                   updateCalls, scheduled, terminals>>

\* ApiService.updateTaskInHistory(id, updates)
UpdateTaskCall(id, updates) ==
    /\ id \in env.updatable
    /\ taskHistory' = updateTaskInHistory(taskHistory, id, updates)
    /\ UNCHANGED <<connections, reconnectAttempts, pollingIntervals, intervalTimers,
                   sockets, timeouts, fetches, delivered, inbound, env, clean,
                   released, taskUpdateCallbacks, logCallbacks, handles, received,
                   updateCalls, scheduled, terminals>>

\* Dashboard: webSocketService.connectToTask(task.id)
ConnectCall(t) ==
    /\ t \in env.callers
    /\ Creates(St, t) => Room(t)
    /\ Install(connectToTask([St EXCEPT !.released[t] = FALSE, !.terminals[t] = 0], t))
    /\ clean' = [clean EXCEPT ![t] = Idle(t)]
    /\ UNCHANGED <<inbound, env>>

\* webSocketService.disconnect(taskId)
DisconnectCall(t) ==
    /\ t \in env.callers
    /\ \E st \in {disconnect(St, t)} : Install(st) /\ Keep(st)
    /\ UNCHANGED <<inbound, env>>

\* Dashboard cleanup: webSocketService.disconnectAll()
DisconnectAllCall ==
    /\ \E st \in {disconnectAll(St)} : Install(st) /\ Keep(st)
    /\ UNCHANGED <<inbound, env>>

\* the setTimeout callback of handleReconnection
TimeoutFires(t) ==
    /\ timeouts[t] > 0
    /\ Creates(St, t) => Room(t)
    /\ Install(connectToTask([St EXCEPT !.timeouts[t] = @ - 1], t))
    /\ UNCHANGED <<inbound, env, clean>>

\* the handshake of a connecting socket succeeds
SocketOpens(ws) ==
    /\ sockets[ws].readyState = "CONNECTING"
    /\ Install(onopen(St, ws))
    /\ clean' = [clean EXCEPT ![sockets[ws].task] = FALSE]
    /\ UNCHANGED <<inbound, env>>

\* the connection fails (refused, or lost): error event, then close event 1006
SocketFails(ws) ==
    LET t == sockets[ws].task IN
    /\ sockets[ws].readyState \in {"CONNECTING", "OPEN"}
    /\ \E st \in {onclose(onerror(St, ws), ws, ABNORMAL_CLOSURE)} :
        /\ st.timeouts[t] <= env.retryCap
        /\ Install(st)
    /\ UNCHANGED <<inbound, env, clean>>

\* the server closes an open connection with a close frame
ServerCloses(ws, code) ==
    LET t == sockets[ws].task IN
    /\ sockets[ws].readyState = "OPEN"
    /\ \E st \in {onclose(St, ws, code)} :
        /\ st.timeouts[t] <= env.retryCap
        /\ Install(st)
    /\ UNCHANGED <<inbound, env, clean>>

\* the close event of a socket the service closed with ws.close(1000, ...)
SocketClosed(ws) ==
    /\ sockets[ws].readyState = "CLOSING"
    /\ Install(onclose(St, ws, NORMAL_CLOSURE))
    /\ UNCHANGED <<inbound, env, clean>>

\* a frame arrives on an open socket
MessageArrives(ws, raw, storageFails) ==
    /\ sockets[ws].readyState = "OPEN"
    /\ EventRoom
    /\ \E st \in {onmessage(St, raw, storageFails)} :
           /\ Install(st)
           /\ Keep(st)
           /\ Log(Event("ws", sockets[ws].task, raw, st.thrown))
    /\ UNCHANGED <<env>>

\* the setInterval callback starts ApiService.getTaskStatus(taskId)
IntervalTicks(t) ==
    /\ intervalTimers[t] > 0
    /\ fetches[t] < env.fetchCap
    /\ fetches' = [fetches EXCEPT ![t] = @ + 1]
    /\ UNCHANGED <<connections, reconnectAttempts, pollingIntervals, intervalTimers,
                   sockets, timeouts, taskHistory, delivered, inbound, env, clean,
                   released, taskUpdateCallbacks, logCallbacks, handles, received,
                   updateCalls, scheduled, terminals>>

\* the awaited getTaskStatus resolves
FetchResolves(t, status, storageFails) ==
    /\ fetches[t] > 0
    /\ EventRoom
    /\ \E st \in {pollResult([St EXCEPT !.fetches[t] = @ - 1], t, status, storageFails)} :
           /\ Install(st)
           /\ Log(Event("poll", t, Message("status", t, status.status, status.progress),
                        st.thrown))
    /\ UNCHANGED <<env, clean>>

\* the awaited getTaskStatus rejects: caught and logged
FetchRejects(t) ==
    /\ fetches[t] > 0
    /\ fetches' = [fetches EXCEPT ![t] = @ - 1]
    /\ UNCHANGED <<connections, reconnectAttempts, pollingIntervals, intervalTimers,
                   sockets, timeouts, taskHistory, delivered, inbound, env, clean,
                   released, taskUpdateCallbacks, logCallbacks, handles, received,
                   updateCalls, scheduled, terminals>>

Next ==
    \/ \E callback \in env.observers : OnTaskUpdateCall(callback)
    \/ \E callback \in env.observers : OnLogCall(callback)
    \/ \E h \in 1..Len(handles) : UnsubscribeCall(h)
    \/ \E id \in env.startable : SaveTaskCall(id)
    \/ \E id \in env.updatable, updates \in HistoryUpdates : UpdateTaskCall(id, updates)
    \/ \E t \in Tasks : ConnectCall(t)
    \/ \E t \in Tasks : DisconnectCall(t)
    \/ DisconnectAllCall
    \/ \E t \in Tasks : TimeoutFires(t)
    \/ \E ws \in SockIds : SocketOpens(ws)
    \/ \E ws \in SockIds : SocketFails(ws)
    \/ \E ws \in SockIds, code \in {NORMAL_CLOSURE, INTERNAL_ERROR} : ServerCloses(ws, code)
    \/ \E ws \in SockIds : SocketClosed(ws)
    \/ \E ws \in SockIds, raw \in env.frames, f \in env.storage : MessageArrives(ws, raw, f)
    \/ \E t \in Tasks : IntervalTicks(t)
    \/ \E t \in Tasks, status \in env.snapshots, f \in env.storage : FetchResolves(t, status, f)
    \/ \E t \in Tasks : FetchRejects(t)

\* ------------------------------------------------------------- initial states
InitService ==
    /\ connections = [t \in Tasks |-> NoSock]
    /\ reconnectAttempts = [t \in Tasks |-> 0]
    /\ pollingIntervals = [t \in Tasks |-> FALSE]
    /\ intervalTimers = [t \in Tasks |-> 0]
    /\ sockets = [s \in SockIds |-> FreeSocket]
    /\ timeouts = [t \in Tasks |-> 0]
    /\ fetches = [t \in Tasks |-> 0]
    /\ delivered = <<>>
    /\ inbound = <<>>
    /\ clean = [t \in Tasks |-> FALSE]
    /\ released = [t \in Tasks |-> FALSE]
    /\ taskUpdateCallbacks = <<>>
    /\ logCallbacks = <<>>
    /\ handles = <<>>
    /\ received = <<>>
    /\ updateCalls = 0
    /\ scheduled = [t \in Tasks |-> <<>>]
    /\ terminals = [t \in Tasks |-> 0]

\* callers: the tasks the page subscribes to; badUrl: the tasks whose URL
\* new WebSocket rejects; frames, snapshots: what the server sends; storage:
\* whether localStorage.setItem can fail; sockCap, retryCap, fetchCap: the
\* sockets, pending retry timers and fetches in flight one task has at a
\* time; logCap: the events of the run, logged (0: any number, not logged).
Env(callers, badUrl, frames, snapshots, storage, sockCap, retryCap, fetchCap, logCap) ==
    [callers |-> callers, badUrl |-> badUrl, frames |-> frames, snapshots |-> snapshots,
     storage |-> storage, sockCap |-> sockCap, retryCap |-> retryCap,
     fetchCap |-> fetchCap, logCap |-> logCap]

\* The observers of the run: the functions the page registers, those of them
\* that throw when called, those that release themselves when called, and
\* the number of onTaskUpdate/onLog calls the page makes.
Mount(observers, throwers, oneShot, regCap) ==
    [observers |-> observers, throwers |-> throwers, oneShot |-> oneShot,
     regCap |-> regCap]

\* The local history of the run: the ids startTask saves (the server issues
\* them in increasing order) and the ids updateTaskInHistory is called for.
Store(startable, updatable) == [startable |-> startable, updatable |-> updatable]

NoStore == Store({}, {})

\* A page that has no task to watch: it registers its observer and releases
\* it, and starts its first task, whose record it updates.
EmptyPage ==
    Env({}, {}, {}, {}, {FALSE}, 0, 0, 0, 0) @@ Mount({"f"}, {}, {}, 1) @@ Store({1}, {1})

\* A page that starts one task after the other, so that the local history
\* fills up; the oldest record and a record that does not exist are updated.
HistoryPage ==
    Env({}, {}, {}, {}, {FALSE}, 0, 0, 0, 0) @@ Mount({}, {}, {}, 0)
        @@ Store(1..MaxSaved, {0, 1})

Pending == TaskRecord("A", "pending", NoProgress, Absent)

\* The connection machinery of one task, with every frame and snapshot.
Init ==
    /\ InitService
    /\ env \in {Env({"A"}, bad, RawMessages({"A"}), StatusSnapshots, BOOLEAN,
                    MaxSockets, MaxTimeouts, MaxFetches, 0)
                    @@ Mount({}, {}, {}, 0) @@ NoStore :
                   bad \in {{}, {"A"}}}
                \cup {EmptyPage, HistoryPage}
    /\ taskHistory = IF env.callers = {} THEN <<>> ELSE <<Pending>>

Spec == Init /\ [][Next]_vars

\* The event path: the runs of three events (frames and poll results), which
\* is the length of the sequences the claims about events are stated for,
\* with one socket at a time, the retry timers of two failures and one fetch
\* in flight.
MsgFrames ==
    {Garbage, Message("heartbeat", "A", Absent, NoProgress),
     Message("completed", "A", Absent, NoProgress)}
    \cup {Message("progress", "A", Absent, p) : p \in ProgressValues}

InitMsg ==
    /\ InitService
    /\ env \in {Env({"A"}, {}, MsgFrames, {Updates("running", 50, Absent)}, BOOLEAN,
                     1, 3, 1, 3) @@ Mount({}, {}, {}, 0) @@ NoStore,
                 EmptyPage}
    /\ taskHistory \in IF env.callers = {} THEN {<<>>} ELSE {<<>>, <<Pending>>}

SpecMsg == InitMsg /\ [][Next]_vars

\* Two tasks: A is watched over a connection, B is polled from the start (its
\* URL is rejected); the server sends frames about either task on the
\* connection of A, one event in all.
PairFrames ==
    {Message("progress", "A", Absent, 50), Message("completed", "B", Absent, NoProgress)}

InitPair ==
    /\ InitService
    /\ env \in {Env({"A", "B"}, {"B"}, PairFrames, {Updates("running", 50, Absent)},
                     {FALSE}, 1, 2, 1, 1) @@ Mount({}, {}, {}, 0) @@ NoStore,
                 EmptyPage}
    /\ taskHistory = IF env.callers = {} THEN <<>> ELSE <<Pending>>

SpecPair == InitPair /\ [][Next]_vars

\* The page that starts tasks and keeps their history, next to a page with
\* two tasks.
InitStore ==
    /\ InitService
    /\ env \in {Env({"A", "B"}, {"B"}, PairFrames, {Updates("running", 50, Absent)},
                     {FALSE}, 1, 2, 1, 1) @@ Mount({}, {}, {}, 0) @@ NoStore,
                 EmptyPage, HistoryPage}
    /\ taskHistory = IF env.callers = {} THEN <<>> ELSE <<Pending>>

SpecStore == InitStore /\ [][Next]_vars

\* The event loop runs a timer that is due, and a connection that cannot be
\* established is reported as failed.
Fairness ==
    /\ WF_vars(\E t \in Tasks : TimeoutFires(t))
    /\ WF_vars(\E ws \in SockIds : SocketFails(ws))

\* The page of one task whose connection attempts the event loop carries
\* through, next to a page whose task is polled from the start.
InitLive ==
    /\ InitService
    /\ env \in {Env({"A"}, {}, RawMessages({"A"}), {}, BOOLEAN,
                     MaxSockets, MaxTimeouts, 0, 0)
                     @@ Mount({}, {}, {}, 0) @@ NoStore,
                 Env({"A"}, {"A"}, {}, StatusSnapshots, {FALSE}, 0, 0, MaxFetches, 0)
                     @@ Mount({}, {}, {}, 0) @@ NoStore,
                 EmptyPage}
    /\ taskHistory = IF env.callers = {} THEN <<>> ELSE <<Pending>>

SpecLive == InitLive /\ [][Next]_vars /\ Fairness

\* The observers: a page that makes two registrations of the functions f and
\* g, of which g throws.  The task is watched over a connection, on which one
\* frame arrives, or it is polled from the start (its URL is rejected), with
\* two fetches in flight and two events.  In a third kind of run no function
\* throws and f releases itself when it is called.
ObsFrames ==
    {Message("log", "A", Absent, NoProgress), Message("progress", "A", Absent, 50),
     Message("completed", "A", Absent, NoProgress)}

ObsSnapshots == {Updates("running", 50, Absent), Updates("completed", 100, Absent)}

InitObs ==
    /\ InitService
    /\ env \in {Env({"A"}, {}, ObsFrames, ObsSnapshots, BOOLEAN, 1, 2, 1, 1)
                     @@ Mount({"f", "g"}, {"g"}, {}, 2) @@ NoStore,
                 Env({"A"}, {"A"}, ObsFrames, ObsSnapshots, BOOLEAN, 1, 2, 2, 2)
                     @@ Mount({"f", "g"}, {"g"}, {}, 2) @@ NoStore,
                 Env({"A"}, {}, ObsFrames, ObsSnapshots, {FALSE}, 1, 2, 1, 1)
                     @@ Mount({"f", "g"}, {}, {"f"}, 2) @@ NoStore,
                 EmptyPage}
    /\ taskHistory = IF env.callers = {} THEN <<>> ELSE <<Pending>>

SpecObs == InitObs /\ [][Next]_vars

\* ===================================================================== claims
Connecting(t) ==
    {s \in SockIds : sockets[s].task = t /\ sockets[s].readyState = "CONNECTING"}

OpenSockets(t) ==
    {s \in SockIds : sockets[s].task = t /\ sockets[s].readyState = "OPEN"}

\* C1: in every reachable state each task has at most one live (connecting or
\* open) WebSocket.
C1_OneLiveSocketPerTask ==
    \A t \in Tasks : Cardinality(LiveSockets(sockets, t)) <= 1

\* C2: a connectToTask(t) call made while t is tracked (socket connecting or
\* open, retry timer pending, or polling) creates no socket and leaves the
\* reconnect counter and the timers of t as they were.
C2_ConnectWhileTrackedIsNoOp ==
    [][\A t \in Tasks :
          (ConnectCall(t) /\ Tracking(t) \in {"open", "connecting", "retry", "polling"})
              => UNCHANGED <<sockets, connections, reconnectAttempts, timeouts,
                             pollingIntervals, intervalTimers>>]_vars

\* the reconnect attempts made so far for a task that has not connected yet
RetriesMade(t) == reconnectAttempts[t] - timeouts[t]

\* C3: for a task subscribed once whose attempts all fail, at most 5
\* reconnect attempts are made; the task is polling only once all 5 have
\* been made and have failed, and while it is polling no further WebSocket
\* is created or scheduled for it.
C3_PollingOnlyAfterFiveRetries ==
    \A t \in Tasks \ env.badUrl :
        clean[t] =>
            /\ RetriesMade(t) <= maxReconnectAttempts
            /\ pollingIntervals[t] =>
                   /\ RetriesMade(t) = maxReconnectAttempts
                   /\ timeouts[t] = 0
                   /\ Connecting(t) = {}

\* C4: once disconnect(t) has returned, and until the next explicit
\* connectToTask(t), t has no open connection, no socket made by a retry
\* timer and no poll timer.
C4_DisconnectedStaysDisconnected ==
    \A t \in Tasks :
        released[t] =>
            /\ connections[t] = NoSock
            /\ OpenSockets(t) = {}
            /\ intervalTimers[t] = 0

TerminalFrames(t) ==
    {Message(ty, t, Absent, NoProgress) : ty \in {"completed", "failed"}}

\* C6: a completed or failed message for t received on a connection of t
\* (the write-through succeeding) leaves t with no connection, no poll
\* timer, no reconnect counter and nothing that would reconnect it.
C6_TerminalMessageReleasesTask ==
    [][\A ws \in SockIds : \A raw \in TerminalFrames(sockets[ws].task) :
          MessageArrives(ws, raw, FALSE)
              => /\ connections'[raw.task_id] = NoSock
                 /\ \A s \in SockIds :
                        sockets'[s].task = raw.task_id
                            => sockets'[s].readyState = "CLOSING"
                 /\ ~pollingIntervals'[raw.task_id]
                 /\ intervalTimers'[raw.task_id] = 0
                 /\ reconnectAttempts'[raw.task_id] = 0
                 /\ timeouts'[raw.task_id] = 0]_vars

\* C7: no task has a poll timer together with an open connection, a
\* connecting socket or a pending retry timer.
C7_PushAndPollExclusive ==
    \A t \in Tasks :
        intervalTimers[t] > 0
            => /\ connections[t] = NoSock
               /\ LiveSockets(sockets, t) = {}
               /\ timeouts[t] = 0

\* C8: a connection that opens cancels the poll timer and resets the
\* reconnect counter, and no polled status is dispatched to the observers
\* while that connection is in the table.
C8_NoPolledUpdateAfterHandover ==
    [][/\ \A ws \in SockIds :
              SocketOpens(ws)
                  => /\ ~pollingIntervals'[sockets[ws].task]
                     /\ intervalTimers'[sockets[ws].task] = 0
                     /\ reconnectAttempts'[sockets[ws].task] = 0
       /\ \A t \in Tasks : \A status \in env.snapshots : \A f \in env.storage :
              FetchResolves(t, status, f) => connections[t] = NoSock]_vars

\* what the observers are due for one event that arrived
Due(e) ==
    LET f == e.frame IN
    IF e.via = "poll"
    THEN <<Delivery("update", "poll", e.on, Updates(f.status, f.progress, Absent))>>
    ELSE CASE f.type = "status" ->
                <<Delivery("update", "ws", f.task_id, Updates(f.status, f.progress, Absent))>>
           [] f.type = "progress" ->
                <<Delivery("update", "ws", f.task_id, Updates(Absent, f.progress, Absent))>>
           [] f.type = "log" ->
                <<Delivery("log", "ws", f.task_id, Updates(Absent, NoProgress, Absent))>>
           [] f.type = "completed" ->
                <<Delivery("update", "ws", f.task_id, Updates("completed", 100, "now"))>>
           [] f.type = "failed" ->
                <<Delivery("update", "ws", f.task_id, Updates("failed", NoProgress, "now"))>>
           [] OTHER -> <<>>

RECURSIVE DueAll(_)
DueAll(events) ==
    IF events = <<>> THEN <<>>
    ELSE DueAll(SubSeq(events, 1, Len(events) - 1)) \o Due(events[Len(events)])

Frames(events) == [i \in 1..Len(events) |-> events[i].frame]

ProgressThenCompleted(t, a, b) ==
    <<Message("progress", t, Absent, a), Message("progress", t, Absent, b),
      Message("completed", t, Absent, NoProgress)>>

Stored(t) == FindIndex(taskHistory, t) > 0

Record(t) == taskHistory[FindIndex(taskHistory, t)]

\* C9 as stated: the observers receive the events in the order they arrived;
\* after [progress=a, progress=b, completed] they have received exactly
\* those three updates, the last one with status completed, progress 100
\* and a completion timestamp, and the persisted record of the task shows
\* progress 100 and a completion timestamp.
C9_PersistedAfterCompleted ==
    /\ delivered = DueAll(inbound)
    /\ \A t \in Tasks : \A a, b \in ProgressValues :
          (Frames(inbound) = ProgressThenCompleted(t, a, b)
              /\ \A i \in 1..Len(inbound) : inbound[i].via = "ws")
              => /\ Len(delivered) = 3
                 /\ delivered[1].updates = Updates(Absent, a, Absent)
                 /\ delivered[2].updates = Updates(Absent, b, Absent)
                 /\ delivered[3].updates = Updates("completed", 100, "now")
                 /\ Stored(t)
                 /\ Record(t).progress = 100
                 /\ Record(t).completed_at = "now"

\* C9 amended: as above, the persisted record showing progress 100 and the
\* completion timestamp when the task has a record in the local history and
\* the storage accepted the write of the completed update.
C9_OrderedDelivery ==
    /\ delivered = DueAll(inbound)
    /\ \A t \in Tasks : \A a, b \in ProgressValues :
          (Frames(inbound) = ProgressThenCompleted(t, a, b)
              /\ \A i \in 1..Len(inbound) : inbound[i].via = "ws")
              => /\ Len(delivered) = 3
                 /\ delivered[1].updates = Updates(Absent, a, Absent)
                 /\ delivered[2].updates = Updates(Absent, b, Absent)
                 /\ delivered[3].updates = Updates("completed", 100, "now")
                 /\ (Stored(t) /\ ~inbound[3].thrown)
                        => /\ Record(t).status = "completed"
                           /\ Record(t).progress = 100
                           /\ Record(t).completed_at = "now"

\* the three events have arrived on the connection of a task with a record
C9_Witness ==
    /\ \E a, b \in ProgressValues :
           /\ a # b
           /\ Frames(inbound) = ProgressThenCompleted("A", a, b)
    /\ \A i \in 1..Len(inbound) : inbound[i].via = "ws" /\ ~inbound[i].thrown
    /\ Stored("A")

DroppedFrames == {Garbage} \cup {Message("heartbeat", t, Absent, NoProgress) : t \in Tasks}

\* C10: a frame that is not JSON or has an unknown type changes nothing: no
\* observer is called, nothing is persisted, the connection stays open and
\* counter and timers stay; two valid frames with an unparsable one between
\* them give exactly two dispatched events.
C10_BadFrameDropped ==
    /\ [][\A ws \in SockIds : \A raw \in DroppedFrames : \A f \in BOOLEAN :
             MessageArrives(ws, raw, f)
                 => UNCHANGED <<connections, reconnectAttempts, pollingIntervals,
                                intervalTimers, sockets, timeouts, fetches, taskHistory,
                                delivered>>]_vars
    /\ [](\A i \in 1..Len(inbound) :
             (/\ i + 2 <= Len(inbound)
              /\ inbound[i].frame \notin DroppedFrames
              /\ inbound[i + 1].frame = Garbage
              /\ inbound[i + 2].frame \notin DroppedFrames)
                 => Len(DueAll(SubSeq(inbound, i, i + 2))) = 2
                    /\ Len(delivered) = Len(DueAll(SubSeq(inbound, 1, i - 1))) + 2
                           + Len(DueAll(SubSeq(inbound, i + 3, Len(inbound)))))

\* a valid frame, an unparsable one and a valid one arrived on one connection,
\* which is still open
C10_Witness ==
    /\ Len(inbound) = 3
    /\ inbound[1].frame \notin DroppedFrames
    /\ inbound[2].frame = Garbage
    /\ inbound[3].frame \notin DroppedFrames
    /\ \A i \in 1..3 : inbound[i].via = "ws"
    /\ connections["A"] # NoSock
    /\ Len(delivered) = 2

\* a function that throws is in the callback array
ThrowerIn(array) == \E i \in 1..Len(array) : array[i].fn \in env.throwers

\* every registration of the array has been called once more in the step
CalledOnce(array) ==
    \A i \in 1..Len(array) : received'[array[i].reg] = received[array[i].reg] + 1

\* disconnect(t) has left its mark on the tables
TornDown(t) ==
    /\ connections'[t] = NoSock
    /\ ~pollingIntervals'[t]
    /\ reconnectAttempts'[t] = 0

\* C11: in a dispatch in which a registered observer throws, every
\* registered observer is still called exactly once, the persistence update
\* is called, and the teardown follows a terminal event: disconnect after a
\* completed or failed message, stopPolling after a polled terminal status.
C11_ThrowingObserverIsolated ==
    [][/\ \A ws \in SockIds : \A raw \in env.frames : \A f \in env.storage :
              (MessageArrives(ws, raw, f) /\ ThrowerIn(taskUpdateCallbacks)
                   /\ raw.type \in {"status", "progress", "completed", "failed"})
                  => /\ CalledOnce(taskUpdateCallbacks)
                     /\ updateCalls' = updateCalls + 1
                     /\ raw.type \in {"completed", "failed"} => TornDown(raw.task_id)
       /\ \A ws \in SockIds : \A raw \in env.frames : \A f \in env.storage :
              (MessageArrives(ws, raw, f) /\ ThrowerIn(logCallbacks) /\ raw.type = "log")
                  => CalledOnce(logCallbacks)
       /\ \A t \in Tasks : \A status \in env.snapshots : \A f \in env.storage :
              (FetchResolves(t, status, f) /\ ThrowerIn(taskUpdateCallbacks))
                  => /\ CalledOnce(taskUpdateCallbacks)
                     /\ updateCalls' = updateCalls + 1
                     /\ IsTerminal(status.status) => ~pollingIntervals'[t]]_vars

\* t has no entry in any table of the service
NoEntry(t) ==
    connections[t] = NoSock /\ ~pollingIntervals[t] /\ reconnectAttempts[t] = 0

\* C12: disconnect(t) called twice in a row leaves the state of one call (the
\* second call closes no socket and stops no timer), and disconnect(t) for a
\* task with no entry changes nothing in the service.
C12_DisconnectIdempotent ==
    /\ [](\A t \in Tasks :
            /\ disconnect(disconnect(St, t), t) = disconnect(St, t)
            /\ NoEntry(t) => disconnect(St, t) = [St EXCEPT !.released[t] = TRUE])
    /\ [][\A t \in Tasks :
             DisconnectCall(t)
                 => /\ disconnect(St', t) = St'
                    /\ NoEntry(t)
                           => UNCHANGED <<connections, reconnectAttempts, pollingIntervals,
                                          intervalTimers, sockets, timeouts, fetches,
                                          taskHistory, delivered, taskUpdateCallbacks,
                                          logCallbacks>>]_vars

\* disconnect(t) has closed the connection of t, whose close event is still
\* to come, and a second disconnect(t) finds nothing to do
C12_Witness ==
    \E t \in Tasks :
        /\ released[t]
        /\ NoEntry(t)
        /\ \E ws \in SockIds : sockets[ws] = [task |-> t, readyState |-> "CLOSING"]
        /\ disconnect(St, t) = St

\* C13: when disconnectAll() returns, no task has a connection, an open
\* socket, a poll timer, a pending retry timer or a reconnect counter.
C13_DisconnectAllReleasesAll ==
    [][DisconnectAllCall
          => \A t \in Tasks :
                 /\ connections'[t] = NoSock
                 /\ \A s \in SockIds :
                        sockets'[s].task = t => sockets'[s].readyState # "OPEN"
                 /\ ~pollingIntervals'[t]
                 /\ intervalTimers'[t] = 0
                 /\ timeouts'[t] = 0
                 /\ reconnectAttempts'[t] = 0]_vars

\* min(1 * 2^n, 30) for n = 0..4, written out
Backoff == <<1, 2, 4, 8, 16>>

\* C14: the retry scheduled when the counter is n (n = 0..4) has the delay
\* min(2^n, 30), in units of 1000 ms; the delays of the retries scheduled
\* for a task since its counter was last reset are non-decreasing and never
\* exceed 30.
C14_BackoffDelays ==
    /\ \A n \in 0..(maxReconnectAttempts - 1) : Delay(n) = Backoff[n + 1]
    /\ \A t \in Tasks :
           /\ Len(scheduled[t]) = reconnectAttempts[t]
           /\ \A i \in 1..Len(scheduled[t]) :
                  /\ i <= maxReconnectAttempts
                  /\ scheduled[t][i] = Backoff[i]
                  /\ scheduled[t][i] <= 30
                  /\ i > 1 => scheduled[t][i - 1] <= scheduled[t][i]

\* the retries of a task have been scheduled for all of n = 0..4
C14_Witness ==
    \E t \in Tasks :
        /\ Len(scheduled[t]) = maxReconnectAttempts
        /\ scheduled[t][maxReconnectAttempts] = 16

\* C15: a failed connection attempt (error event and close event) adds one
\* to the reconnect counter and schedules one retry, as long as the counter
\* is below the maximum; a connection that opens resets the counter.
C15_OneIncrementPerFailure ==
    [][/\ \A ws \in SockIds :
              (SocketFails(ws) /\ reconnectAttempts[sockets[ws].task] < maxReconnectAttempts)
                  => /\ reconnectAttempts'[sockets[ws].task]
                            = reconnectAttempts[sockets[ws].task] + 1
                     /\ timeouts'[sockets[ws].task] = timeouts[sockets[ws].task] + 1
       /\ \A ws \in SockIds :
              SocketOpens(ws) => reconnectAttempts'[sockets[ws].task] = 0]_vars

\* C16: the number of calls of the persistence update equals the number of
\* events dispatched to the observers, of whatever kind.
C16_EveryEventPersisted == updateCalls = Len(delivered)

\* C17: also when the storage rejects the write, the observers receive the
\* event and the steps after the dispatch run: disconnect after a completed
\* or failed message, stopPolling after a polled terminal status.
C17_PersistenceFailureDoesNotBlock ==
    [][/\ \A ws \in SockIds : \A raw \in TerminalFrames(sockets[ws].task) :
          \A f \in BOOLEAN :
              MessageArrives(ws, raw, f)
                  => /\ Len(delivered') = Len(delivered) + 1
                     /\ CalledOnce(taskUpdateCallbacks)
                     /\ TornDown(raw.task_id)
       /\ \A t \in Tasks : \A status \in env.snapshots : \A f \in BOOLEAN :
              (FetchResolves(t, status, f) /\ IsTerminal(status.status))
                  => /\ Len(delivered') = Len(delivered) + 1
                     /\ CalledOnce(taskUpdateCallbacks)
                     /\ ~pollingIntervals'[t]
                     /\ intervalTimers'[t] = 0]_vars

\* C18: since the last connectToTask(t) the observers have received at most
\* one update of t with status completed or failed.
C18_TerminalSurfacedOnce == \A t \in Tasks : terminals[t] <= 1

Fns(array) == [i \in 1..Len(array) |-> array[i].fn]

Without(array, reg) == SelectSeq(array, LAMBDA e : e.reg # reg)

Holds(array, reg) == \E i \in 1..Len(array) : array[i].reg = reg

\* C19: a call of the closure returned by a registration removes that
\* registration (the array then holds the functions of the others, in
\* order) and nothing else; a call made when the registration is gone
\* changes neither array.
C19_UnregisterRemovesOwn ==
    [][\A h \in 1..Len(handles) :
          UnsubscribeCall(h)
              => IF handles[h].list = "update"
                 THEN /\ logCallbacks' = logCallbacks
                      /\ IF Holds(taskUpdateCallbacks, h)
                         THEN Fns(taskUpdateCallbacks') = Fns(Without(taskUpdateCallbacks, h))
                         ELSE taskUpdateCallbacks' = taskUpdateCallbacks
                 ELSE /\ taskUpdateCallbacks' = taskUpdateCallbacks
                      /\ IF Holds(logCallbacks, h)
                         THEN Fns(logCallbacks') = Fns(Without(logCallbacks, h))
                         ELSE logCallbacks' = logCallbacks]_vars

\* t was subscribed, has not been disconnected since and has had no terminal
\* event since, and the service is connecting it, has it open, is waiting to
\* retry it or is polling it
Watched(t) ==
    /\ ~released[t]
    /\ terminals[t] = 0
    /\ Tracking(t) \in {"open", "connecting", "retry", "polling"}

\* C20: getActiveConnections() returns exactly the watched tasks.
C20_ActiveConnectionsAreWatched ==
    \A t \in Tasks : t \in getActiveConnections(St) <=> Watched(t)

\* C21: every task has at most one poll timer, and has one exactly when it
\* has an entry in the table; fallbackToPolling(t) changes nothing when t has
\* a timer, and stopPolling(t) a second time changes nothing.
C21_OnePollTimerPerTask ==
    \A t \in Tasks :
        /\ intervalTimers[t] = IF pollingIntervals[t] THEN 1 ELSE 0
        /\ pollingIntervals[t] => fallbackToPolling(St, t) = St
        /\ fallbackToPolling(fallbackToPolling(St, t), t) = fallbackToPolling(St, t)
        /\ stopPolling(stopPolling(St, t), t) = stopPolling(St, t)

\* t is polling after the failure that found the counter at its maximum, in
\* which the error event and the close event both called fallbackToPolling
C21_Witness ==
    \E t \in Tasks :
        /\ pollingIntervals[t]
        /\ intervalTimers[t] = 1
        /\ reconnectAttempts[t] = maxReconnectAttempts
        /\ timeouts[t] = 0
        /\ \A s \in SockIds : sockets[s].task # t

\* C22: a task that is subscribed once and has an attempt to connect under
\* way or scheduled eventually has a poll timer, unless an attempt succeeds
\* or the task is disconnected or subscribed again.
C22_EventuallyPolling ==
    \A t \in Tasks :
        (clean[t] /\ Tracking(t) \in {"connecting", "retry"})
            ~> (pollingIntervals[t] \/ ~clean[t])

\* the task is polling after its attempts have all failed
C22_Witness ==
    \E t \in Tasks \ env.badUrl :
        clean[t] /\ pollingIntervals[t] /\ reconnectAttempts[t] = maxReconnectAttempts

\* the step leaves the tables of task b as they are and dispatches nothing
\* in the name of b
Untouched(b) ==
    /\ (connections'[b] = NoSock) <=> (connections[b] = NoSock)
    /\ pollingIntervals'[b] = pollingIntervals[b]
    /\ intervalTimers'[b] = intervalTimers[b]
    /\ reconnectAttempts'[b] = reconnectAttempts[b]
    /\ Len(delivered') > Len(delivered) => delivered'[Len(delivered')].task # b

\* C23: a frame that arrives on a connection of task a, a failure or close
\* of a connection of a, and a poll result or poll error of a leave every
\* other task untouched.
C23_TasksIndependent ==
    [][/\ \A ws \in SockIds : \A raw \in env.frames : \A f \in env.storage :
              MessageArrives(ws, raw, f)
                  => \A b \in Tasks \ {sockets[ws].task} : Untouched(b)
       /\ \A ws \in SockIds :
              (SocketFails(ws) \/ ServerCloses(ws, INTERNAL_ERROR)
                               \/ ServerCloses(ws, NORMAL_CLOSURE))
                  => \A b \in Tasks \ {sockets[ws].task} : Untouched(b)
       /\ \A a \in Tasks :
              (FetchRejects(a) \/ \E status \in env.snapshots : \E f \in env.storage :
                                     FetchResolves(a, status, f))
                  => \A b \in Tasks \ {a} : Untouched(b)]_vars

\* C24: a polled status of completed or failed (the storage accepting the
\* write) stops the poll timer and leaves t with no connection and no
\* reconnect counter.
C24_PolledTerminalReleasesTask ==
    [][\A t \in Tasks : \A status \in env.snapshots :
          (FetchResolves(t, status, FALSE) /\ IsTerminal(status.status))
              => /\ ~pollingIntervals'[t]
                 /\ intervalTimers'[t] = 0
                 /\ connections'[t] = NoSock
                 /\ reconnectAttempts'[t] = 0]_vars

\* C25: a connectToTask(t) in which new WebSocket throws, the counter being
\* below the maximum, adds one to the counter, schedules a retry and starts
\* no polling.
C25_SyncFailureReconnects ==
    [][\A t \in env.badUrl :
          (/\ ConnectCall(t) \/ TimeoutFires(t)
           /\ connections[t] = NoSock
           /\ reconnectAttempts[t] < maxReconnectAttempts)
              => /\ reconnectAttempts'[t] = reconnectAttempts[t] + 1
                 /\ timeouts'[t] > 0
                 /\ pollingIntervals'[t] = pollingIntervals[t]]_vars

\* C26: a step after which a task is no longer watched (no socket, no retry
\* timer, no poll timer) is a disconnect of the task or a terminal event of
\* the task.
C26_WatchedUntilReleased ==
    [][\A t \in Tasks :
          (Tracking(t) # "none" /\ Tracking(t)' = "none")
              => (released'[t] \/ terminals'[t] > 0)]_vars

\* C27: in every dispatch each registration that is in the callback array
\* when the dispatch starts is called exactly once, whatever the callbacks
\* do to the array.
C27_DispatchToAllRegistered ==
    [][/\ \A ws \in SockIds : \A raw \in env.frames : \A f \in env.storage :
              MessageArrives(ws, raw, f)
                  => /\ raw.type \in {"status", "progress", "completed", "failed"}
                            => CalledOnce(taskUpdateCallbacks)
                     /\ raw.type = "log" => CalledOnce(logCallbacks)
       /\ \A t \in Tasks : \A status \in env.snapshots : \A f \in env.storage :
              FetchResolves(t, status, f) => CalledOnce(taskUpdateCallbacks)]_vars

\* C28: the table entry of a task is an open socket of the task, and the
\* close or error event of another socket of the task leaves the task with
\* its entry.
C28_EntryIsCurrentSocket ==
    /\ [](\A t \in Tasks :
            connections[t] # NoSock
                => sockets[connections[t]] = [task |-> t, readyState |-> "OPEN"])
    /\ [][\A ws \in SockIds :
             (/\ \/ SocketClosed(ws)
                 \/ SocketFails(ws)
                 \/ ServerCloses(ws, NORMAL_CLOSURE)
                 \/ ServerCloses(ws, INTERNAL_ERROR)
              /\ connections[sockets[ws].task] # NoSock
              /\ connections[sockets[ws].task] # ws)
                 => connections'[sockets[ws].task] # NoSock]_vars

\* C29: the reconnect counter of every task is within 0..5, and a step that
\* schedules a retry timer for a task starts with the counter below 5.
C29_CounterWithinBounds ==
    /\ [](\A t \in Tasks : reconnectAttempts[t] \in 0..maxReconnectAttempts)
    /\ [][\A t \in Tasks :
             timeouts'[t] > timeouts[t]
                 => reconnectAttempts[t] < maxReconnectAttempts]_vars

\* the counter has reached the maximum in a step that scheduled the last retry
C29_Witness ==
    \E t \in Tasks :
        /\ reconnectAttempts[t] = maxReconnectAttempts
        /\ timeouts[t] > 0
        /\ scheduled[t][maxReconnectAttempts] = 16

\* as many ids as records
UniqueIds(history) ==
    Cardinality({history[i].id : i \in 1..Len(history)}) = Len(history)

\* the field of the record after an update that may set it
Overwritten(old, new, unset) == IF new = unset THEN old ELSE new

\* updateTaskInHistory(id, u) changes nothing when id is not stored, and else
\* changes the first record of that id alone, in the fields u has
UpdateIsKeyed ==
    \A id \in env.updatable : \A u \in HistoryUpdates :
        UpdateTaskCall(id, u)
            => \A taskIndex \in {FindIndex(taskHistory, id)} :
                  IF taskIndex > 0
                  THEN /\ Len(taskHistory') = Len(taskHistory)
                       /\ \A i \in 1..Len(taskHistory) :
                              IF i = taskIndex
                              THEN /\ taskHistory'[i].id =
                                          IF "id" \in DOMAIN u THEN u.id ELSE id
                                   /\ taskHistory'[i].status =
                                          Overwritten(taskHistory[i].status, u.status, Absent)
                                   /\ taskHistory'[i].progress =
                                          Overwritten(taskHistory[i].progress, u.progress,
                                                      NoProgress)
                                   /\ taskHistory'[i].completed_at =
                                          Overwritten(taskHistory[i].completed_at,
                                                      u.completed_at, Absent)
                              ELSE taskHistory'[i] = taskHistory[i]
                  ELSE taskHistory' = taskHistory

\* an updateTaskInHistory(id, u) whose u has the id of another task
RenamingUpdate ==
    \E id \in env.updatable : \E u \in HistoryUpdates :
        /\ UpdateTaskCall(id, u)
        /\ "id" \in DOMAIN u
        /\ u.id # id

\* C30 (as stated): the stored history has at most 100 records and no id
\* twice; updateTaskInHistory for an id that is not stored changes nothing,
\* and for a stored id changes the record of that id alone, in the fields the
\* update has.
C30_HistoryBoundedAndKeyed ==
    /\ [](Len(taskHistory) <= HistoryLimit /\ UniqueIds(taskHistory))
    /\ [][UpdateIsKeyed]_vars

\* C30 (amended): the stored history has at most 100 records; every step
\* other than an updateTaskInHistory whose update has the id of another task
\* keeps the ids of the history distinct; updateTaskInHistory for an id that
\* is not stored changes nothing, and for a stored id changes the first
\* record of that id alone, in the fields the update has, the id among them.
C30_HistoryBounded ==
    /\ [](Len(taskHistory) <= HistoryLimit)
    /\ [][(UniqueIds(taskHistory) /\ ~RenamingUpdate) => UniqueIds(taskHistory')]_vars
    /\ [][UpdateIsKeyed]_vars

\* the history is full, its oldest records have been dropped, and a record
\* carries an update
C30_Witness ==
    /\ Len(taskHistory) = HistoryLimit
    /\ taskHistory[1].id > HistoryLimit
    /\ \E i \in 1..Len(taskHistory) : taskHistory[i].progress = 10

====
